---- MODULE Spec2Model ----
(***************************************************************************)
(* Model of src/lib/custom_database.rs: Resource::new (building a Resource *)
(* from the embeds of a chat message) and DiscordDatabase (insert_resource, *)
(* select_resources, select_random_resource over the resources table).      *)
(*                                                                         *)
(* A Rust String is a sequence of one-character strings.                   *)
(***************************************************************************)
EXTENDS Integers, Sequences, FiniteSets, TLC

(* ------------------------------ bounds --------------------------------- *)

\* Largest number of rows the resources table holds in the model.
MaxRows == 3

\* Largest number of embeds on a message in the model.
MaxEmbeds == 2

(* ------------------------------ strings -------------------------------- *)

Quote == "\""
Backslash == "\\"

Upper == <<"A","B","C","D","E","F","G","H","I","J","K","L","M",
           "N","O","P","Q","R","S","T","U","V","W","X","Y","Z">>
Lower == <<"a","b","c","d","e","f","g","h","i","j","k","l","m",
           "n","o","p","q","r","s","t","u","v","w","x","y","z">>

\* char::to_lowercase on the characters of the model's alphabet.
LowerChar(c) ==
    IF \E i \in 1..26 : Upper[i] = c
    THEN Lower[CHOOSE i \in 1..26 : Upper[i] = c]
    ELSE c

\* str::to_lowercase
to_lowercase(s) == [i \in 1..Len(s) |-> LowerChar(s[i])]

\* char::is_whitespace on the characters of the model's alphabet.
White == {" ", "\t", "\n", "\r"}

RECURSIVE trim_start(_)
trim_start(s) ==
    IF s /= <<>> /\ Head(s) \in White THEN trim_start(Tail(s)) ELSE s

RECURSIVE trim_end(_)
trim_end(s) ==
    IF s /= <<>> /\ s[Len(s)] \in White
    THEN trim_end(SubSeq(s, 1, Len(s) - 1))
    ELSE s

\* str::trim
trim(s) == trim_end(trim_start(s))

\* String::is_empty
is_empty(s) == Len(s) = 0

RECURSIVE Concat(_)
Concat(ss) == IF ss = <<>> THEN <<>> ELSE Head(ss) \o Concat(Tail(ss))

\* str::replace(from, "") for a one-character `from`.
RECURSIVE RemoveChar(_, _)
RemoveChar(s, c) ==
    IF s = <<>> THEN <<>>
    ELSE IF Head(s) = c THEN RemoveChar(Tail(s), c)
    ELSE <<Head(s)>> \o RemoveChar(Tail(s), c)

(* ------------------------------ Resource ------------------------------- *)

\* #[derive(Default)] struct Resource: empty Strings and type_id 0.
DefaultResource ==
    [user_id |-> <<>>, channel_id |-> <<>>, url |-> <<>>,
     description |-> <<>>, shash |-> <<>>, type_id |-> 0]

\* Option<T>: None is the empty sequence, Some(x) the sequence <<x>>.
NoneValue == <<>>
Some(x) == <<x>>
unwrap(o) == o[1]

\* serde_json's escaping of one character inside a JSON string.
EscapeChar(c) ==
    CASE c = Quote -> <<Backslash, Quote>>
      [] c = Backslash -> <<Backslash, Backslash>>
      [] c = "\n" -> <<Backslash, "n">>
      [] c = "\t" -> <<Backslash, "t">>
      [] c = "\r" -> <<Backslash, "r">>
      [] OTHER -> <<c>>

\* serde_json::Value::to_string (Display) of a Value::String holding s: the
\* JSON text of the value, that is s escaped and put between double quotes.
ValueToString(s) ==
    <<Quote>> \o Concat([i \in 1..Len(s) |-> EscapeChar(s[i])]) \o <<Quote>>

Digits == <<"0", "1", "2", "3", "4", "5", "6", "7", "8", "9">>

\* u64::to_string
RECURSIVE U64ToString(_)
U64ToString(n) ==
    IF n < 10 THEN <<Digits[n + 1]>>
    ELSE U64ToString(n \div 10) \o <<Digits[(n % 10) + 1]>>

\* Resource::_calculate_hash: DefaultHasher's 64-bit hash of the description.
\* The hash is kept symbolic: a value determined by the hashed string.
calculate_hash(t) == [hash_of |-> t]

\* u64::to_string of the hash, symbolic as the hash is.
HashToString(h) == <<h>>

PipeUrl == <<"|", "u", "r", "l", ":", " ">>
Plus == <<" ", "+", " ">>

\* format!("{}|url: {} + {} + {}", description, url, embed_title, embed_description)
FormatDescription(description, url, embed_title, embed_description) ==
    description \o PipeUrl \o url \o Plus \o embed_title \o Plus \o embed_description

\* The type_id Resource::new gives every Resource.
TypeId == 10

\* The `for embed in embeds` loop of Resource::new, from the values url and
\* description hold before it: the values they hold after it, or the panic
\* of an unwrap() on a field the embed lacks.
RECURSIVE EmbedLoop(_, _, _)
EmbedLoop(embeds, url, description) ==
    IF embeds = <<>>
    THEN [panic |-> FALSE, url |-> url, description |-> description]
    ELSE LET embed == Head(embeds)
         IN IF \/ embed.title = NoneValue
               \/ embed.description = NoneValue
               \/ embed.url = NoneValue
            THEN [panic |-> TRUE, url |-> url, description |-> description]
            ELSE LET embed_title == ValueToString(unwrap(embed.title))
                     embed_description == ValueToString(unwrap(embed.description))
                     url1 == trim(to_lowercase(ValueToString(unwrap(embed.url))))
                 IN EmbedLoop(Tail(embeds), url1,
                        FormatDescription(description, url1,
                            embed_title, embed_description))

\* Resource::new
new(msg) ==
    LET loop == EmbedLoop(msg.embeds, <<>>, <<>>)
    IN IF loop.panic
       THEN [status |-> "panic", resource |-> DefaultResource]
       ELSE LET description == trim(to_lowercase(loop.description))
                shash == HashToString(calculate_hash(description))
            IN [status |-> "ok",
                resource |-> [user_id |-> U64ToString(msg.author_id),
                              channel_id |-> U64ToString(msg.channel_id),
                              url |-> loop.url,
                              description |-> description,
                              type_id |-> TypeId,
                              shash |-> shash]]

(* --------------------- the backend (resources table) ------------------- *)

VARIABLES
    table,      \* public.resources: the stored rows, in insertion order
    op,         \* the DiscordDatabase method called last ("none" at start)
    arg,        \* its arguments and the environment's choices for the call
    ret,        \* its return value
    status,     \* "ok", or why the call panicked
    message,    \* the message handed to Resource::new
    built       \* what Resource::new returned for it

vars == <<table, op, arg, ret, status, message, built>>

\* The value the table's id column takes for the next row: ids grow with
\* every insert, which is what makes ORDER BY id DESC newest-first.
NextId(t) == IF t = <<>> THEN 1 ELSE t[Len(t)].id + 1

\* execute, had the statement overwritten the stored row of the same shash
\* (an upsert on the fingerprint) instead of adding a row.
execute_upsert(t, resource, db_ok) ==
    IF ~db_ok THEN [ok |-> FALSE, table |-> t]
    ELSE IF \E i \in 1..Len(t) : t[i].shash = resource.shash
    THEN [ok |-> TRUE,
          table |-> [i \in 1..Len(t) |->
                       IF t[i].shash = resource.shash
                       THEN [id |-> t[i].id,
                             user_id |-> resource.user_id,
                             channel_id |-> resource.channel_id,
                             url |-> resource.url,
                             description |-> resource.description,
                             type_id |-> resource.type_id,
                             shash |-> resource.shash]
                       ELSE t[i]]]
    ELSE [ok |-> TRUE,
          table |-> Append(t, [id |-> NextId(t),
                               user_id |-> resource.user_id,
                               channel_id |-> resource.channel_id,
                               url |-> resource.url,
                               description |-> resource.description,
                               type_id |-> resource.type_id,
                               shash |-> resource.shash])]

\* execute, had the table rejected a second row of the same shash (a
\* uniqueness constraint on the fingerprint).
execute_unique(t, resource, db_ok) ==
    IF ~db_ok \/ \E i \in 1..Len(t) : t[i].shash = resource.shash
    THEN [ok |-> FALSE, table |-> t]
    ELSE [ok |-> TRUE,
          table |-> Append(t, [id |-> NextId(t),
                               user_id |-> resource.user_id,
                               channel_id |-> resource.channel_id,
                               url |-> resource.url,
                               description |-> resource.description,
                               type_id |-> resource.type_id,
                               shash |-> resource.shash])]

\* postgres Client::execute of the INSERT statement with the six parameters
\* $1..$6: the statement adds one row, and adds nothing when it fails.
execute(t, resource, db_ok) ==
    IF ~db_ok THEN [ok |-> FALSE, table |-> t]
    ELSE [ok |-> TRUE,
          table |-> Append(t, [id |-> NextId(t),
                               user_id |-> resource.user_id,
                               channel_id |-> resource.channel_id,
                               url |-> resource.url,
                               description |-> resource.description,
                               type_id |-> resource.type_id,
                               shash |-> resource.shash])]

\* format!("%{}%", description)
Pattern(description) == <<"%">> \o description \o <<"%">>

\* PostgreSQL's `s LIKE p`: % matches any run of characters, _ any one
\* character, and a backslash makes the character after it literal.
RECURSIVE Like(_, _)
Like(s, p) ==
    IF p = <<>> THEN s = <<>>
    ELSE IF Head(p) = "%"
    THEN Like(s, Tail(p)) \/ (s /= <<>> /\ Like(Tail(s), p))
    ELSE IF Head(p) = "_"
    THEN s /= <<>> /\ Like(Tail(s), Tail(p))
    ELSE IF Head(p) = Backslash
    THEN /\ Len(p) >= 2
         /\ s /= <<>>
         /\ Head(s) = p[2]
         /\ Like(Tail(s), Tail(Tail(p)))
    ELSE s /= <<>> /\ Head(s) = Head(p) /\ Like(Tail(s), Tail(p))

\* WHERE description LIKE $1
Where(t, p) == SelectSeq(t, LAMBDA row : Like(row.description, p))

\* Removal of the k-th element.
Without(t, k) == [i \in 1..(Len(t) - 1) |-> IF i < k THEN t[i] ELSE t[i + 1]]

\* ORDER BY id, had DESC been left out.
RECURSIVE OrderByIdAsc(_)
OrderByIdAsc(t) ==
    IF t = <<>> THEN <<>>
    ELSE LET k == CHOOSE i \in 1..Len(t) :
                      \A j \in 1..Len(t) : t[j].id >= t[i].id
         IN <<t[k]>> \o OrderByIdAsc(Without(t, k))

\* ORDER BY id DESC
RECURSIVE OrderByIdDesc(_)
OrderByIdDesc(t) ==
    IF t = <<>> THEN <<>>
    ELSE LET k == CHOOSE i \in 1..Len(t) :
                      \A j \in 1..Len(t) : t[j].id <= t[i].id
         IN <<t[k]>> \o OrderByIdDesc(Without(t, k))

\* OFFSET offset LIMIT limit
OffsetLimit(t, offset, limit) ==
    SubSeq(t, offset + 1, IF offset + limit < Len(t) THEN offset + limit ELSE Len(t))

\* The statement of select_resources, run by the backend.
SelectQuery(t, p, offset, limit) ==
    OffsetLimit(OrderByIdDesc(Where(t, p)), offset, limit)

\* RandomQuery, had the WHERE clause been left out.
RandomQueryAny(t, p) ==
    IF t = <<>> THEN {<<>>} ELSE {<<t[i]>> : i \in 1..Len(t)}

\* The statement of select_random_resource, run by the backend: the results
\* it can give (ORDER BY random() puts any matching row first; LIMIT 1).
RandomQuery(t, p) ==
    LET m == Where(t, p)
    IN IF m = <<>> THEN {<<>>} ELSE {<<m[i]>> : i \in 1..Len(m)}

(* --------------------------- DiscordDatabase --------------------------- *)

\* RowToResource, had every column been copied as stored.
RowToResourceRaw(row) ==
    [user_id |-> row.user_id, channel_id |-> row.channel_id,
     url |-> row.url, description |-> row.description,
     shash |-> row.shash, type_id |-> row.type_id]

\* The loop body of both select methods: a Resource from one returned row.
RowToResource(row) ==
    [DefaultResource EXCEPT
        !.user_id = row.user_id,
        !.channel_id = row.channel_id,
        !.url = RemoveChar(row.url, Quote),
        !.description = row.description]

\* insert_resource, had the check rejected only a Resource with both fields
\* empty (&& for ||).
insert_resource_and(t, resource, db_ok) ==
    IF is_empty(resource.url) /\ is_empty(resource.description)
    THEN [ret |-> FALSE, table |-> t]
    ELSE LET result == execute(t, resource, db_ok)
         IN [ret |-> result.ok, table |-> result.table]

\* DiscordDatabase::insert_resource: its return value and the table after it.
insert_resource(t, resource, db_ok) ==
    IF is_empty(resource.url) \/ is_empty(resource.description)
    THEN [ret |-> FALSE, table |-> t]
    ELSE LET result == execute(t, resource, db_ok)
         IN [ret |-> result.ok, table |-> result.table]

\* page * limit on u16, as the build can compute it: the product when it
\* fits; otherwise a panic where overflow is checked (debug profile) or the
\* low 16 bits where it is not (release profile).
MulU16(page, limit) ==
    IF page * limit < 2^16
    THEN {[panic |-> FALSE, value |-> page * limit]}
    ELSE {[panic |-> TRUE, value |-> 0],
          [panic |-> FALSE, value |-> (page * limit) % (2^16)]}

\* The outcomes of select_resources (one per build profile when page * limit
\* overflows, one otherwise).
select_resources(t, description, limit, page, db_ok) ==
    {IF offset.panic THEN [status |-> "panic_overflow", ret |-> <<>>]
     ELSE IF ~db_ok THEN [status |-> "panic_backend", ret |-> <<>>]
     ELSE LET data == SelectQuery(t, Pattern(description), offset.value, limit)
          IN [status |-> "ok",
              ret |-> [i \in 1..Len(data) |-> RowToResource(data[i])]] :
       offset \in MulU16(page, limit)}

\* The outcomes of select_random_resource (one per choice of the backend).
select_random_resource(t, description, db_ok) ==
    IF ~db_ok THEN {[status |-> "panic_backend", ret |-> <<>>]}
    ELSE {[status |-> "ok",
           ret |-> [i \in 1..Len(data) |-> RowToResource(data[i])]] :
             data \in RandomQuery(t, Pattern(description))}

(* ------------------------- inputs of the model ------------------------- *)

\* Resources handed to insert_resource (the fields are public: any value can
\* be passed).  ResA and ResC carry the same description and shash; ResA's
\* and ResB's urls hold double quotes.
ResA == [user_id |-> <<"1">>, channel_id |-> <<"2">>,
         url |-> <<Quote, "a", Quote>>, description |-> <<"a", "b">>,
         shash |-> <<"h", "1">>, type_id |-> 10]
ResB == [user_id |-> <<"3">>, channel_id |-> <<"4">>,
         url |-> <<"b", Quote>>, description |-> <<"b", "%">>,
         shash |-> <<"h", "2">>, type_id |-> 10]
ResC == [user_id |-> <<"5">>, channel_id |-> <<"2">>,
         url |-> <<"c">>, description |-> <<"a", "b">>,
         shash |-> <<"h", "1">>, type_id |-> 7]
ResNoUrl == [ResA EXCEPT !.url = <<>>]
ResNoDescription == [ResB EXCEPT !.description = <<>>]
ResNeither == [ResC EXCEPT !.url = <<>>, !.description = <<>>]

Resources == {ResA, ResB, ResC, ResNoUrl, ResNoDescription, ResNeither}

\* Search terms: the empty term, plain terms ("c" occurs in no input
\* description), and terms made of the characters LIKE gives a meaning to.
Terms == {<<>>, <<"a">>, <<"c">>, <<"_">>, <<"%">>, <<Backslash>>}

\* limit and page (u16); 256 * 256 = 2^16 is the smallest overflowing square.
Limits == {0, 1, 2, 256}
Pages == {0, 1, 2, 256}

NoMessage == [author_id |-> 0, channel_id |-> 0, embeds |-> <<>>]
NotBuilt == [status |-> "none", resource |-> DefaultResource]

\* The fields of an embed (serde_json object): each a string or missing.
EmbedUrls == {Some(<<"A">>), Some(<<" ", "b">>), NoneValue}
EmbedTitles == {Some(<<"T">>), Some(<<"t", Quote>>), NoneValue}
EmbedDescriptions == {Some(<<"d">>), Some(<<>>), NoneValue}

Embeds == [url : EmbedUrls, title : EmbedTitles, description : EmbedDescriptions]

Messages ==
    [author_id : {7}, channel_id : {42},
     embeds : UNION {[1..n -> Embeds] : n \in 0..MaxEmbeds}]

(* ------------------------------ the store ------------------------------ *)

Init ==
    /\ table = <<>>
    /\ op = "none"
    /\ arg = <<>>
    /\ ret = <<>>
    /\ status = "ok"
    /\ message = NoMessage
    /\ built = NotBuilt

InsertResource ==
    /\ Len(table) < MaxRows
    /\ \E resource \in Resources, db_ok \in BOOLEAN :
         LET out == insert_resource(table, resource, db_ok)
         IN /\ table' = out.table
            /\ op' = "insert_resource"
            /\ arg' = [resource |-> resource, db_ok |-> db_ok]
            /\ ret' = out.ret
            /\ status' = "ok"
    /\ UNCHANGED <<message, built>>

SelectResources ==
    /\ \E description \in Terms, limit \in Limits, page \in Pages,
          db_ok \in BOOLEAN :
         \E out \in select_resources(table, description, limit, page, db_ok) :
            /\ op' = "select_resources"
            /\ arg' = [description |-> description, limit |-> limit,
                       page |-> page, db_ok |-> db_ok]
            /\ ret' = out.ret
            /\ status' = out.status
    /\ UNCHANGED <<table, message, built>>

SelectRandomResource ==
    /\ \E description \in Terms, db_ok \in BOOLEAN :
         \E out \in select_random_resource(table, description, db_ok) :
            /\ op' = "select_random_resource"
            /\ arg' = [description |-> description, db_ok |-> db_ok]
            /\ ret' = out.ret
            /\ status' = out.status
    /\ UNCHANGED <<table, message, built>>

Next == InsertResource \/ SelectResources \/ SelectRandomResource

Spec == Init /\ [][Next]_vars

(* ---------------------------- Resource::new ---------------------------- *)

InitNew ==
    /\ table = <<>>
    /\ op = "none"
    /\ arg = <<>>
    /\ ret = <<>>
    /\ status = "ok"
    /\ message \in Messages
    /\ built = NotBuilt

ResourceNew ==
    /\ built.status = "none"
    /\ built' = new(message)
    /\ UNCHANGED <<table, op, arg, ret, status, message>>

NextNew == ResourceNew

SpecNew == InitNew /\ [][NextNew]_vars

(* ------------------- vocabulary of the properties ---------------------- *)

\* term occurs as a contiguous substring of s.
IsSubstring(term, s) ==
    \E k \in 0..(Len(s) - Len(term)) : SubSeq(s, k + 1, k + Len(term)) = term

\* s with every double-quote character removed.
StripQuotes(s) == SelectSeq(s, LAMBDA c : c /= Quote)

\* The stored rows the filter of a query for `term` lets through, oldest first.
Matching(term) == SelectSeq(table, LAMBDA row : Like(row.description, Pattern(term)))

\* res is what a reader gets for the stored row: the row's user_id, channel_id
\* and description, and its url without double quotes.
Corresponds(res, row) ==
    /\ res.user_id = row.user_id
    /\ res.channel_id = row.channel_id
    /\ res.description = row.description
    /\ res.url = StripQuotes(row.url)

IsSelect == op \in {"select_resources", "select_random_resource"}

\* The six fields of resource, as the last row of t.
LastRowIs(t, resource) ==
    /\ t /= <<>>
    /\ t[Len(t)].user_id = resource.user_id
    /\ t[Len(t)].channel_id = resource.channel_id
    /\ t[Len(t)].url = resource.url
    /\ t[Len(t)].description = resource.description
    /\ t[Len(t)].type_id = resource.type_id
    /\ t[Len(t)].shash = resource.shash

(* ------------------------------ properties ----------------------------- *)

\* C1: insert_resource with an empty url or an empty description (or both)
\* returns false and leaves the stored rows as they were.
C1_EmptyFieldRejected ==
    [][(/\ op' = "insert_resource"
        /\ (arg'.resource.url = <<>> \/ arg'.resource.description = <<>>))
       => (ret' = FALSE /\ table' = table)]_vars

\* An insert of a Resource with an empty url and a non-empty description,
\* with a working backend and a non-empty store, has returned false.
C1_Witness ==
    /\ op = "insert_resource"
    /\ arg.resource.url = <<>>
    /\ arg.resource.description /= <<>>
    /\ arg.db_ok
    /\ ret = FALSE
    /\ Len(table) >= 1

\* C2: with url and description non-empty, insert_resource returns true
\* exactly when one row carrying the six fields was added; on a backend
\* error it returns false and the rows are unchanged; a stored row with the
\* same shash does not stop the insert.
C2_InsertAddsOneRow ==
    [][(/\ op' = "insert_resource"
        /\ arg'.resource.url /= <<>>
        /\ arg'.resource.description /= <<>>)
       => /\ arg'.db_ok =>
               /\ ret' = TRUE
               /\ Len(table') = Len(table) + 1
               /\ SubSeq(table', 1, Len(table)) = table
               /\ LastRowIs(table', arg'.resource)
          /\ ~arg'.db_ok => (ret' = FALSE /\ table' = table)
          /\ (ret' = TRUE) <=> (table' /= table)]_vars

\* An insert has returned true and its row has the shash of an older row.
C2_Witness ==
    /\ op = "insert_resource"
    /\ ret = TRUE
    /\ Len(table) >= 2
    /\ LastRowIs(table, arg.resource)
    /\ \E i \in 1..(Len(table) - 1) : table[i].shash = table[Len(table)].shash

\* C3: with page * limit at most 65535 and a working backend,
\* select_resources returns the matching rows newest first, without the
\* first page * limit of them, and at most limit of them.
C3_PageOfNewestFirst ==
    (op = "select_resources" /\ arg.db_ok /\ arg.page * arg.limit <= 65535)
    => /\ status = "ok"
       /\ LET m == Matching(arg.description)
              skip == arg.page * arg.limit
              rest == IF Len(m) > skip THEN Len(m) - skip ELSE 0
              k == IF arg.limit < rest THEN arg.limit ELSE rest
          IN /\ Len(ret) = k
             /\ \A i \in 1..k : Corresponds(ret[i], m[Len(m) - skip - i + 1])

\* The second page of size 1 out of three stored rows of which two match:
\* the one row returned is the older matching row.
C3_Witness ==
    /\ op = "select_resources"
    /\ status = "ok"
    /\ arg.page = 1
    /\ arg.limit = 1
    /\ Len(table) = 3
    /\ Len(Matching(arg.description)) = 2
    /\ Len(ret) = 1
    /\ Corresponds(ret[1], Matching(arg.description)[1])

\* C4: for every limit and page of 16 bits, select_resources with a working
\* backend does not fail, returns nothing when limit = 0, and returns nothing
\* when the product page * limit is at least the number of matching rows.
C4_SkipsTrueProduct ==
    (op = "select_resources" /\ arg.db_ok)
    => /\ status = "ok"
       /\ arg.limit = 0 => ret = <<>>
       /\ arg.page * arg.limit >= Len(Matching(arg.description)) => ret = <<>>

\* C5: with a working backend select_random_resource does not fail and
\* returns no Resource exactly when no stored row matches, and otherwise one
\* Resource, read from a stored row that matches.
C5_RandomZeroOrOne ==
    (op = "select_random_resource" /\ arg.db_ok)
    => /\ status = "ok"
       /\ Len(ret) <= 1
       /\ (Len(ret) = 0) <=> (Matching(arg.description) = <<>>)
       /\ Len(ret) = 1 =>
            \E i \in 1..Len(Matching(arg.description)) :
                Corresponds(ret[1], Matching(arg.description)[i])

\* Exactly one of several stored rows matches, and it is the one returned.
C5_Witness ==
    /\ op = "select_random_resource"
    /\ status = "ok"
    /\ Len(table) >= 2
    /\ Len(Matching(arg.description)) = 1
    /\ Len(ret) = 1
    /\ Corresponds(ret[1], Matching(arg.description)[1])

\* C6: the filter of both queries is a substring match, also for terms that
\* hold '%' or '_': a random pick is returned exactly when some stored
\* description contains the term, and a first page as long as the store
\* holds exactly the rows whose description contains the term.
C6_FilterIsSubstring ==
    /\ (op = "select_random_resource" /\ status = "ok")
       => ((ret /= <<>>) <=>
             \E i \in 1..Len(table) : IsSubstring(arg.description, table[i].description))
    /\ (/\ op = "select_resources"
        /\ status = "ok"
        /\ arg.page = 0
        /\ arg.limit >= Len(table))
       => Len(ret) = Cardinality({i \in 1..Len(table) :
                          IsSubstring(arg.description, table[i].description)})

\* C9: stored rows are never updated or deleted: every step keeps the rows
\* it found, a select changes nothing, an insert adds at most one row.
C9_RowsOnlyAdded ==
    [][/\ Len(table') >= Len(table)
       /\ SubSeq(table', 1, Len(table)) = table
       /\ op' \in {"select_resources", "select_random_resource"} => table' = table
       /\ op' = "insert_resource" => Len(table') <= Len(table) + 1]_vars

\* A row was added to a store that holds an older row with the same shash
\* and another author.
C9_Witness ==
    /\ op = "insert_resource"
    /\ ret = TRUE
    /\ Len(table) >= 2
    /\ \E i \in 1..(Len(table) - 1) :
          /\ table[i].shash = table[Len(table)].shash
          /\ table[i].user_id /= table[Len(table)].user_id

\* C10: every Resource a select returns is read from one stored row: its
\* user_id, channel_id and description are the row's, its url is the row's
\* without double quotes, and its shash and type_id are the defaults.
C10_ReadBack ==
    IsSelect =>
        \A i \in 1..Len(ret) :
            /\ \E j \in 1..Len(table) : Corresponds(ret[i], table[j])
            /\ \A k \in 1..Len(ret[i].url) : ret[i].url[k] /= Quote
            /\ ret[i].shash = <<>>
            /\ ret[i].type_id = 0

\* A select has returned the row stored with the url "a" between double
\* quotes, a shash and type_id 10.
C10_Witness ==
    /\ IsSelect
    /\ \E i \in 1..Len(ret) :
          /\ ret[i].url = <<"a">>
          /\ \E j \in 1..Len(table) :
                /\ Corresponds(ret[i], table[j])
                /\ table[j].url = <<Quote, "a", Quote>>
                /\ table[j].shash /= <<>>
                /\ table[j].type_id = 10

(* ----------------------- properties of Resource::new -------------------- *)

\* The fragment of one embed as the documentation writes it, from the text
\* of the embed's fields.
Fragment(embed) ==
    PipeUrl \o unwrap(embed.url) \o Plus \o unwrap(embed.title)
            \o Plus \o unwrap(embed.description)

\* C7: the description Resource::new builds is the lowercased, trimmed
\* concatenation, in encounter order, of the fragments
\* '|url: <url> + <title> + <description>' of the embeds.
C7_DescriptionIsFragments ==
    built.status = "ok"
    => built.resource.description =
         trim(to_lowercase(Concat([i \in 1..Len(message.embeds) |->
                                      Fragment(message.embeds[i])])))

\* C8: the url Resource::new builds is the last embed's url, lowercased and
\* trimmed, and the empty string for a message without embeds.
C8_UrlIsLastEmbedUrl ==
    built.status = "ok"
    => built.resource.url =
         IF message.embeds = <<>> THEN <<>>
         ELSE trim(to_lowercase(unwrap(message.embeds[Len(message.embeds)].url)))

====
